---- MODULE Spec2Model ----
(***************************************************************************)
(* ez-rke terminal dashboard: the event multiplexer (src/src/event.rs),    *)
(* the diagnostic bridge (src/src/log.rs) and the run loop with its key    *)
(* interpreter (src/src/app.rs).                                           *)
(***************************************************************************)
EXTENDS Naturals, Sequences, FiniteSets

\* ------------------------------------------------------------------ bounds
\* Iterations of the timer/input task's select! loop that are explored.
MaxTask == 2
\* Diagnostic records emitted by call sites other than the two of this crate.
MaxEmit == 1

\* ------------------------------------------------------------------ values
\* crossterm::event::KeyModifiers is a bit set; a value is a set of held flags.
AllModifiers == {"CONTROL", "SHIFT", "ALT"}
KeyModifiers == SUBSET AllModifiers
CONTROL == {"CONTROL"}

\* crossterm::event::KeyCode, as far as handle_key_events tells codes apart
\* (Char('Q') and Char('x') stand for any other character).
KeyCodes == {"Esc", "q", "Q", "c", "C", "d", "D", "x"}
KeyKinds == {"Press", "Repeat", "Release"}

KeyEvent(code, mods, kind) == [code |-> code, modifiers |-> mods, kind |-> kind]
KeyEvents == [code : KeyCodes, modifiers : KeyModifiers, kind : KeyKinds]
NoKey == [code |-> "none", modifiers |-> {}, kind |-> "none"]

\* log::LogEvent: the call site that emitted it and its capture order there
\* (the timestamp taken in From<&tracing::Event>), with its level.
Sites == {"init_logger", "handle_key_events", "other"}
LogEvent(site, n, level) == [site |-> site, n |-> n, level |-> level]
NoLog == [site |-> "none", n |-> 0, level |-> "none"]

\* event::Event, one record shape for the six variants.
Tick == [type |-> "Tick", key |-> NoKey, log |-> NoLog]
Key(k) == [type |-> "Key", key |-> k, log |-> NoLog]
Mouse == [type |-> "Mouse", key |-> NoKey, log |-> NoLog]
Resize == [type |-> "Resize", key |-> NoKey, log |-> NoLog]
Log(l) == [type |-> "Log", key |-> NoKey, log |-> l]
Invalid == [type |-> "Invalid", key |-> NoKey, log |-> NoLog]

\* config::Config.servers, reduced to what draw branches on.
Configs == {[control |-> 2, worker |-> 0, vip |-> FALSE],
            [control |-> 1, worker |-> 1, vip |-> TRUE]}

\* tracing levels ordered by severity; EnvFilter lets through the records at
\* least as severe as its directive.
Severity(level) ==
  CASE level = "TRACE" -> 0
    [] level = "DEBUG" -> 1
    [] level = "INFO"  -> 2
    [] level = "WARN"  -> 3
    [] level = "ERROR" -> 4
FilterLevels == {"ERROR", "INFO", "DEBUG"}

VARIABLES
  pc,          \* position of App::run / of the caller of the App
  running,     \* App.running
  debug,       \* App.debug
  logs,        \* App.logs
  config,      \* App.config
  queue,       \* the flume channel's buffered events
  rxAlive,     \* the Receiver held by EventHandler has not been dropped
  taskAlive,   \* the spawned timer/input task has not panicked
  taskIters,   \* iterations of the task's loop completed
  filter,      \* "none" before init_logger, then the EnvFilter directive
  emitted,     \* per call site, the diagnostic records converted so far
  emitFailed,  \* an on_event call panicked or returned an error to its emitter
  rawMode,     \* the terminal is in raw / alternate-screen mode
  result,      \* what App::run returned: "none", "ok", or the call that failed
  draws,       \* completed terminal.draw calls
  key_event,   \* argument of the last handle_key_events call
  enqueued,    \* history: every event a send placed on the channel
  dequeued,    \* history: every event EventHandler::next returned
  area,        \* frame.area(): the terminal's size
  frame        \* what the last draw rendered: its panels, in render order

vars == <<pc, running, debug, logs, config, queue, rxAlive, taskAlive, taskIters,
          filter, emitted, emitFailed, rawMode, result, draws, key_event,
          enqueued, dequeued, area, frame>>

\* ------------------------------------------------------- the channel
send_when_short(q, alive, e) ==
  IF alive /\ Len(q) < 2 THEN [ok |-> TRUE, queue |-> Append(q, e)]
                          ELSE [ok |-> FALSE, queue |-> q]

\* flume::Sender::send on the unbounded channel: never waits; fails only when
\* every Receiver has been dropped, and then the event is not queued.
send(q, alive, e) ==
  IF alive THEN [ok |-> TRUE, queue |-> Append(q, e)]
           ELSE [ok |-> FALSE, queue |-> q]

\* The Sender clones that exist: EventHandler.tx, the task's _tx and, once
\* init_logger ran, the TuiLayer's.
Senders ==
  (IF rxAlive THEN {"handler"} ELSE {})
    \cup (IF taskAlive THEN {"task"} ELSE {})
    \cup (IF filter # "none" THEN {"layer"} ELSE {})

\* recv_async resolves when an event is queued or no Sender is left.
CanRecv(q) == q # <<>> \/ Senders = {}

next_newest(q) ==
  IF q # <<>> THEN [event |-> q[Len(q)], queue |-> SubSeq(q, 1, Len(q) - 1)]
              ELSE [event |-> Invalid, queue |-> q]

\* EventHandler::next: the oldest queued event, or Invalid on a closed channel.
next(q) ==
  IF q # <<>> THEN [event |-> Head(q), queue |-> Tail(q)]
              ELSE [event |-> Invalid, queue |-> q]

\* ------------------------------------------------------- the task
\* What the terminal's input stream can yield (crossterm::event::Event).
TermKey(k) == [type |-> "Key", key |-> k, log |-> NoLog]
FocusLost == [type |-> "FocusLost", key |-> NoKey, log |-> NoLog]
FocusGained == [type |-> "FocusGained", key |-> NoKey, log |-> NoLog]
Paste == [type |-> "Paste", key |-> NoKey, log |-> NoLog]

\* The key events the run-loop specification feeds to the terminal.
LoopKeys ==
  {KeyEvent("q", {}, "Press"), KeyEvent("c", CONTROL, "Press"),
   KeyEvent("d", {}, "Press"), KeyEvent("x", {}, "Press"),
   KeyEvent("d", {}, "Release"), KeyEvent("D", {"SHIFT"}, "Repeat")}
TermInputs ==
  {TermKey(k) : k \in LoopKeys} \cup {Mouse, Resize, FocusLost, FocusGained, Paste}

forward_any_kind(ev) ==
  CASE ev.type = "Key"    -> <<Key(ev.key)>>
    [] ev.type = "Mouse"  -> <<Mouse>>
    [] ev.type = "Resize" -> <<Resize>>
    [] OTHER              -> <<>>

\* The match of the select! arm for a terminal event: the events it sends.
forward(ev) ==
  CASE ev.type = "Key"    -> IF ev.key.kind = "Press" THEN <<Key(ev.key)>> ELSE <<>>
    [] ev.type = "Mouse"  -> <<Mouse>>
    [] ev.type = "Resize" -> <<Resize>>
    [] OTHER              -> <<>>

\* ------------------------------------------------------- the bridge
enabled_any_level(f, level) == f # "none"

\* EnvFilter: a record reaches the layers iff the logger is installed and the
\* record is at least as severe as the directive.
enabled(f, level) == f # "none" /\ Severity(level) >= Severity(f)

on_event_unwrap(q, alive, rec) ==
  LET r == send(q, alive, Log(rec))
  IN  [queue |-> r.queue, failed |-> ~r.ok]

\* TuiLayer::on_event: convert and send, the send's result dropped by .ok().
on_event(q, alive, rec) ==
  LET r == send(q, alive, Log(rec))
  IN  [queue |-> r.queue, failed |-> FALSE]

\* ------------------------------------------------------- the application
App == [running |-> running, debug |-> debug, logs |-> logs, config |-> config]

handle_key_events_plain_q(app, key) ==
  CASE key.code \in {"Esc", "q"} ->
         IF key.modifiers = {} THEN [app EXCEPT !.running = FALSE] ELSE app
    [] key.code \in {"c", "C"} ->
         IF key.modifiers = CONTROL THEN [app EXCEPT !.running = FALSE] ELSE app
    [] key.code \in {"d", "D"} -> [app EXCEPT !.debug = ~app.debug]
    [] OTHER -> app

handle_key_events_any_case(app, key) ==
  CASE key.code \in {"Esc", "q", "Q"} -> [app EXCEPT !.running = FALSE]
    [] key.code \in {"c", "C"} ->
         IF key.modifiers = CONTROL THEN [app EXCEPT !.running = FALSE] ELSE app
    [] key.code \in {"d", "D"} -> [app EXCEPT !.debug = ~app.debug]
    [] OTHER -> app

\* App::handle_key_events, the match on key_event.code.
handle_key_events(app, key) ==
  CASE key.code \in {"Esc", "q"} -> [app EXCEPT !.running = FALSE]
    [] key.code \in {"c", "C"} ->
         IF key.modifiers = CONTROL THEN [app EXCEPT !.running = FALSE] ELSE app
    [] key.code \in {"d", "D"} -> [app EXCEPT !.debug = ~app.debug]
    [] OTHER -> app

handle_events_prepend(app, event) ==
  CASE event.type = "Key" -> handle_key_events(app, event.key)
    [] event.type = "Log" -> [app EXCEPT !.logs = <<event.log>> \o app.logs]
    [] OTHER -> app

handle_events_invalid_stops(app, event) ==
  CASE event.type = "Key" -> handle_key_events(app, event.key)
    [] event.type = "Log" -> [app EXCEPT !.logs = Append(app.logs, event.log)]
    [] event.type \in {"Invalid", "Tick"} -> [app EXCEPT !.running = FALSE]
    [] OTHER -> app

\* App::handle_events, the match on the event next() returned.
handle_events(app, event) ==
  CASE event.type = "Key" -> handle_key_events(app, event.key)
    [] event.type = "Log" -> [app EXCEPT !.logs = Append(app.logs, event.log)]
    [] OTHER -> app

while_cond_forever(app) == TRUE

\* The condition of run's while loop.
while_cond(app) == app.running

\* ------------------------------------------------------- layout and rendering
\* Width asked for the Configuration column and height asked for the Vip strip.
ConfigWidth == 20
VipHeight == 2

Rect(x, y, w, h) == [x |-> x, y |-> y, width |-> w, height |-> h]
SatSub(a, b) == IF a > b THEN a - b ELSE 0
Least(a, b) == IF a < b THEN a ELSE b

\* Layout::vertical([Percentage(50), Percentage(50)]).split(r): the boundary
\* is rounded, so an odd height gives the extra row to the upper half.
split_halves(r) ==
  <<[r EXCEPT !.height = (@ + 1) \div 2],
    [r EXCEPT !.y = @ + (r.height + 1) \div 2, !.height = @ \div 2]>>

\* Layout::horizontal([Min(20), Percentage(100)]).split(r): the percentage
\* takes all that the minimum leaves.
split_columns(r) ==
  <<[r EXCEPT !.width = Least(ConfigWidth, @)],
    [r EXCEPT !.x = @ + Least(ConfigWidth, r.width), !.width = SatSub(@, ConfigWidth)]>>

\* Layout::vertical([Min(2), Percentage(100)]).split(r)
split_strip(r) ==
  <<[r EXCEPT !.height = Least(VipHeight, @)],
    [r EXCEPT !.y = @ + Least(VipHeight, r.height), !.height = SatSub(@, VipHeight)]>>

\* ratatui::widgets::Borders and symbols::border::Set (the four corners; the
\* sides are always the plain vertical and horizontal lines). Glyphs carry the
\* names of symbols::line::NORMAL.
AllSides == {"TOP", "BOTTOM", "LEFT", "RIGHT"}
PLAIN == [top_left |-> "top_left", top_right |-> "top_right",
          bottom_left |-> "bottom_left", bottom_right |-> "bottom_right"]

\* Block::inner: the rows left to the content.
inner_height(r, borders) ==
  SatSub(SatSub(r.height, IF "TOP" \in borders THEN 1 ELSE 0),
         IF "BOTTOM" \in borders THEN 1 ELSE 0)

\* List rendering from a ListState offset with nothing selected: the offset
\* is clamped to the last item, then one row per item until the rows run out.
list_lines(items, offset, rows) ==
  LET first == Least(offset, SatSub(Len(items), 1))
      count == Least(Len(items) - first, rows)
  IN  IF Len(items) = 0 THEN <<>> ELSE SubSeq(items, first + 1, first + count)

\* Paragraph rendering: the text's lines from the first, clipped to the rows.
paragraph_lines(text, rows) == SubSeq(text, 1, Least(Len(text), rows))

Panel(kind, r, borders, set, offset, lines) ==
  [kind |-> kind, area |-> r, borders |-> borders, set |-> set,
   offset |-> offset, lines |-> lines]

scroll_offset_full_height(len, height) == SatSub(len, height)
scroll_offset_sticky(len, height) == SatSub(len, SatSub(height, 1)) + draws

\* The offset given to the Logs list: len.saturating_sub(height.saturating_sub(1)).
scroll_offset(len, height) == SatSub(len, SatSub(height, 1))

\* The names of a topology of n nodes, in declared order.
ControlNames == <<"control-1", "control-2", "control-3">>
WorkerNames == <<"worker-1", "worker-2", "worker-3">>

logs_shown_if_any(app) == app.debug /\ app.logs # <<>>

\* `if self.debug`: whether the frame has a Logs panel.
logs_shown(app) == app.debug

\* App::draw with draw_logs: the panels rendered into a frame of area a.
draw(app, a) ==
  LET halves == split_halves(a)
      main_area == IF logs_shown(app) THEN halves[1] ELSE a
      left_set == IF logs_shown(app)
                  THEN [PLAIN EXCEPT !.bottom_left = "vertical_right"]
                  ELSE PLAIN
      set0 == IF logs_shown(app)
              THEN [PLAIN EXCEPT !.bottom_left = "horizontal_up",
                                 !.bottom_right = "vertical_left"]
              ELSE [PLAIN EXCEPT !.bottom_left = "horizontal_up"]
      log_area == halves[2]
      log_borders == AllSides \ {"TOP"}
      log_offset == scroll_offset(Len(app.logs), log_area.height)
      logs_panel ==
        IF logs_shown(app)
        THEN <<Panel("Logs", log_area, log_borders, PLAIN, log_offset,
                     list_lines(app.logs, log_offset,
                                inner_height(log_area, log_borders)))>>
        ELSE <<>>
      columns == split_columns(main_area)
      config_borders == AllSides \ {"RIGHT"}
      config_panel ==
        Panel("Configuration", columns[1], config_borders, left_set, 0,
              list_lines(<<"Test config">>, 0, inner_height(columns[1], config_borders)))
      strips == split_strip(columns[2])
      vip_set == [set0 EXCEPT !.top_left = "horizontal_down"]
      vip_borders == AllSides \ {"BOTTOM"}
      vip_panel ==
        IF app.config.vip
        THEN <<Panel("Vip", strips[1], vip_borders, vip_set, 0,
                     paragraph_lines(<<"vip">>, inner_height(strips[1], vip_borders)))>>
        ELSE <<>>
      area1 == IF app.config.vip THEN strips[2] ELSE columns[2]
      set1 == IF app.config.vip
              THEN [vip_set EXCEPT !.top_left = "vertical_right",
                                   !.top_right = "vertical_left"]
              ELSE [PLAIN EXCEPT !.top_left = "horizontal_down"]
      has_worker == app.config.worker # 0
      rows == split_halves(area1)
      set2 == IF has_worker
              THEN [set1 EXCEPT !.top_left = "vertical_right",
                                !.top_right = "vertical_left"]
              ELSE set1
      worker_panel ==
        IF has_worker
        THEN <<Panel("WorkerNodes", rows[2], AllSides, set2, 0,
                     list_lines(SubSeq(WorkerNames, 1, app.config.worker), 0,
                                inner_height(rows[2], AllSides)))>>
        ELSE <<>>
      area2 == IF has_worker THEN rows[1] ELSE area1
      control_borders == IF has_worker THEN AllSides \ {"BOTTOM"} ELSE AllSides
      control ==
        IF app.config.control = 0
        THEN <<"No control plane nodes configured">>
        ELSE SubSeq(ControlNames, 1, app.config.control)
      control_panel ==
        Panel("ControlNodes", area2, control_borders, set2, 0,
              list_lines(control, 0, inner_height(area2, control_borders)))
  IN  logs_panel \o <<config_panel>> \o vip_panel \o worker_panel \o <<control_panel>>

\* Block::render's borders: the glyph the panel p puts on cell (x, y), or
\* "none". Sides are drawn left, top, right, bottom, then the corners whose
\* two sides are both present.
cell_glyph(p, x, y) ==
  LET r == p.area
      left == r.x
      right == r.x + r.width - 1
      top == r.y
      bottom == r.y + r.height - 1
      has(side) == side \in p.borders
  IN  IF r.width = 0 \/ r.height = 0 \/ x < left \/ x > right \/ y < top \/ y > bottom
      THEN "none"
      ELSE CASE x = left /\ y = top /\ has("LEFT") /\ has("TOP") -> p.set.top_left
             [] x = left /\ y = bottom /\ has("LEFT") /\ has("BOTTOM") -> p.set.bottom_left
             [] x = right /\ y = top /\ has("RIGHT") /\ has("TOP") -> p.set.top_right
             [] x = right /\ y = bottom /\ has("RIGHT") /\ has("BOTTOM") -> p.set.bottom_right
             [] y = bottom /\ has("BOTTOM") -> "horizontal"
             [] x = right /\ has("RIGHT") -> "vertical"
             [] y = top /\ has("TOP") -> "horizontal"
             [] x = left /\ has("LEFT") -> "vertical"
             [] OTHER -> "none"

\* main.rs, draw: the last `height` records, oldest first, as a Paragraph
\* inside Block::bordered() over the whole frame.
main_draw(records, a) ==
  LET height == a.height
      taken == SubSeq(records, Len(records) - Least(Len(records), height) + 1,
                      Len(records))
  IN  <<Panel("Tracing", a, AllSides, PLAIN, 0,
              paragraph_lines(taken, inner_height(a, AllSides)))>>

\* The terminal size and the topology of the run-loop specification (the
\* topology with every panel; run never writes config), and "nothing drawn yet".
LoopArea == Rect(0, 0, ConfigWidth + 4, 12)
LoopConfig == [control |-> 1, worker |-> 1, vip |-> TRUE]
NoFrame == <<>>

\* ------------------------------------------------------- actions
\* A diagnostic record raised at `site` with `level`: dropped by the filter, or
\* converted by on_event and sent.
Emit(q, site, level) ==
  IF enabled(filter, level)
  THEN LET rec == LogEvent(site, emitted[site] + 1, level)
           r   == on_event(q, rxAlive, rec)
       IN  /\ queue' = r.queue
           /\ enqueued' = IF r.queue = q THEN enqueued ELSE Append(enqueued, Log(rec))
           /\ emitted' = [emitted EXCEPT ![site] = @ + 1]
           /\ emitFailed' = (emitFailed \/ r.failed)
  ELSE /\ queue' = q
       /\ UNCHANGED <<enqueued, emitted, emitFailed>>

\* The body of handle_key_events: the debug! record, then the match.
KeyCall(q, k) ==
  LET app == handle_key_events(App, k)
  IN  /\ key_event' = k
      /\ Emit(q, "handle_key_events", "DEBUG")
      /\ running' = app.running
      /\ debug' = app.debug
      /\ logs' = app.logs
      /\ config' = app.config

\* App::new happened (Init); run sets running and takes the terminal lock.
RunStart ==
  /\ pc = "new"
  /\ running' = TRUE
  /\ pc' = "clear"
  /\ UNCHANGED <<debug, logs, config, queue, rxAlive, taskAlive, taskIters, filter,
                 emitted, emitFailed, rawMode, result, draws, key_event, enqueued,
                 dequeued, area, frame>>

\* `?` on a terminal error: run returns Err at once; self, and with it the
\* EventHandler and its Receiver, is dropped.
ReturnErr(e) ==
  /\ pc' = "done"
  /\ result' = e
  /\ rxAlive' = FALSE
  /\ UNCHANGED <<running, debug, logs, config, queue, taskAlive, taskIters, filter,
                 emitted, emitFailed, rawMode, draws, key_event, enqueued, dequeued, area, frame>>

Clear_then_handle(ok) ==
  /\ pc = "clear"
  /\ IF ok
     THEN /\ pc' = "handle"
          /\ UNCHANGED <<running, debug, logs, config, queue, rxAlive, taskAlive,
                         taskIters, filter, emitted, emitFailed, rawMode, result,
                         draws, key_event, enqueued, dequeued, area, frame>>
     ELSE ReturnErr("clear_err")

\* terminal.clear()?
Clear(ok) ==
  /\ pc = "clear"
  /\ IF ok
     THEN /\ pc' = "loop"
          /\ UNCHANGED <<running, debug, logs, config, queue, rxAlive, taskAlive,
                         taskIters, filter, emitted, emitFailed, rawMode, result,
                         draws, key_event, enqueued, dequeued, area, frame>>
     ELSE ReturnErr("clear_err")

\* One pass of the loop head and terminal.draw(..)?
Draw(ok) ==
  /\ pc = "loop"
  /\ while_cond(App)
  /\ IF ok
     THEN /\ pc' = "handle"
          /\ draws' = draws + 1
          /\ frame' = draw(App, area)
          /\ UNCHANGED <<running, debug, logs, config, queue, rxAlive, taskAlive,
                         taskIters, filter, emitted, emitFailed, rawMode, result,
                         key_event, enqueued, dequeued, area>>
     ELSE ReturnErr("draw_err")

\* self.handle_events().await: blocks in next(), then applies the event.
HandleEvents ==
  /\ pc = "handle"
  /\ CanRecv(queue)
  /\ LET r == next(queue)
     IN  /\ dequeued' = Append(dequeued, r.event)
         /\ IF r.event.type = "Key"
            THEN KeyCall(r.queue, r.event.key)
            ELSE LET app == handle_events(App, r.event)
                 IN  /\ running' = app.running
                     /\ debug' = app.debug
                     /\ logs' = app.logs
                     /\ config' = app.config
                     /\ queue' = r.queue
                     /\ UNCHANGED <<key_event, enqueued, emitted, emitFailed>>
  /\ pc' = "loop"
  /\ UNCHANGED <<rxAlive, taskAlive, taskIters, filter, rawMode, result, draws,
                 area, frame>>

\* The loop condition fails: ratatui::restore(), Ok(()), self dropped.
LoopExit ==
  /\ pc = "loop"
  /\ ~while_cond(App)
  /\ rawMode' = FALSE
  /\ result' = "ok"
  /\ rxAlive' = FALSE
  /\ pc' = "done"
  /\ UNCHANGED <<running, debug, logs, config, queue, taskAlive, taskIters, filter,
                 emitted, emitFailed, draws, key_event, enqueued, dequeued, area, frame>>

\* The task sends the events `es` (at most one); unwrap panics on a failed send.
TaskSend(es) ==
  /\ taskIters' = taskIters + 1
  /\ IF es = <<>>
     THEN UNCHANGED <<queue, enqueued, taskAlive>>
     ELSE LET r == send(queue, rxAlive, es[1])
          IN  /\ queue' = r.queue
              /\ enqueued' = IF r.ok THEN Append(enqueued, es[1]) ELSE enqueued
              /\ taskAlive' = r.ok
  /\ UNCHANGED <<pc, running, debug, logs, config, rxAlive, filter, emitted,
                 emitFailed, rawMode, result, draws, key_event, dequeued, area, frame>>

\* select!: the interval fired first.
TaskTick ==
  /\ taskAlive
  /\ taskIters < MaxTask
  /\ TaskSend(<<Tick>>)

\* select!: the terminal's event stream yielded `ev` first.
TaskInput(ev) ==
  /\ taskAlive
  /\ taskIters < MaxTask
  /\ TaskSend(forward(ev))

\* log::init_logger under the RUST_LOG directive `level`: installs the layer
\* with a clone of the Sender and raises its info! record.
InitLogger(level) ==
  /\ filter = "none"
  /\ filter' = level
  /\ IF Severity("INFO") >= Severity(level)
     THEN LET rec == LogEvent("init_logger", emitted["init_logger"] + 1, "INFO")
              r   == on_event(queue, rxAlive, rec)
          IN  /\ queue' = r.queue
              /\ enqueued' = IF r.queue = queue THEN enqueued
                                                ELSE Append(enqueued, Log(rec))
              /\ emitted' = [emitted EXCEPT !["init_logger"] = @ + 1]
              /\ emitFailed' = (emitFailed \/ r.failed)
     ELSE UNCHANGED <<queue, enqueued, emitted, emitFailed>>
  /\ UNCHANGED <<pc, running, debug, logs, config, rxAlive, taskAlive, taskIters,
                 rawMode, result, draws, key_event, dequeued, area, frame>>

\* Any other call site of the process raises an error! record, on any thread.
EmitOther ==
  /\ enabled(filter, "ERROR")
  /\ emitted["other"] < MaxEmit
  /\ Emit(queue, "other", "ERROR")
  /\ UNCHANGED <<pc, running, debug, logs, config, rxAlive, taskAlive, taskIters,
                 filter, rawMode, result, draws, key_event, dequeued, area, frame>>

\* After App::new (ratatui::init put the terminal in raw mode) and
\* EventHandler::new (channel created, task spawned).
Init ==
  /\ pc = "new"
  /\ running = FALSE
  /\ debug = FALSE
  /\ logs = <<>>
  /\ config = LoopConfig
  /\ queue = <<>>
  /\ rxAlive = TRUE
  /\ taskAlive = TRUE
  /\ taskIters = 0
  /\ filter = "none"
  /\ emitted = [s \in Sites |-> 0]
  /\ emitFailed = FALSE
  /\ rawMode = TRUE
  /\ result = "none"
  /\ draws = 0
  /\ key_event = NoKey
  /\ enqueued = <<>>
  /\ dequeued = <<>>
  /\ area = LoopArea
  /\ frame = NoFrame

Next ==
  \/ RunStart
  \/ \E ok \in BOOLEAN : Clear(ok)
  \/ \E ok \in BOOLEAN : Draw(ok)
  \/ HandleEvents
  \/ LoopExit
  \/ TaskTick
  \/ \E ev \in TermInputs : TaskInput(ev)
  \/ \E level \in FilterLevels : InitLogger(level)
  \/ EmitOther

Spec == Init /\ [][Next]_vars

\* ------------------------------------------------------- the key interpreter alone
\* handle_key_events is public: a caller holding an App in any state of its
\* fields calls it with any key event.
SomeLogs == {<<>>, <<LogEvent("other", 1, "ERROR")>>,
             <<LogEvent("init_logger", 1, "INFO"), LogEvent("other", 1, "ERROR")>>}

InitKey ==
  /\ pc = "call"
  /\ running \in BOOLEAN
  /\ debug \in BOOLEAN
  /\ logs \in SomeLogs
  /\ config \in Configs
  /\ queue = <<>>
  /\ rxAlive = TRUE
  /\ taskAlive = TRUE
  /\ taskIters = 0
  /\ filter \in {"none", "INFO", "DEBUG"}
  /\ emitted = [s \in Sites |-> 0]
  /\ emitFailed = FALSE
  /\ rawMode = TRUE
  /\ result = "none"
  /\ draws = 0
  /\ key_event = NoKey
  /\ enqueued = <<>>
  /\ dequeued = <<>>
  /\ area = LoopArea
  /\ frame = NoFrame

CallHandleKeyEvents(k) ==
  /\ pc = "call"
  /\ KeyCall(queue, k)
  /\ pc' = "ret"
  /\ UNCHANGED <<rxAlive, taskAlive, taskIters, filter, rawMode, result, draws,
                 dequeued, area, frame>>

NextKey == \E k \in KeyEvents : CallHandleKeyEvents(k)

SpecKey == InitKey /\ [][NextKey]_vars

\* ------------------------------------------------------- any tick rate
\* EventHandler::new(tick_rate) with any duration: tokio::time::interval
\* panics on a zero period, so with tick_rate = 0 the spawned task dies at its
\* first poll, before it sends anything, and its Sender is dropped.
InitAnyTick ==
  /\ pc = "new"
  /\ running = FALSE
  /\ debug = FALSE
  /\ logs = <<>>
  /\ config \in Configs
  /\ queue = <<>>
  /\ rxAlive = TRUE
  /\ taskAlive \in BOOLEAN
  /\ taskIters = 0
  /\ filter = "none"
  /\ emitted = [s \in Sites |-> 0]
  /\ emitFailed = FALSE
  /\ rawMode = TRUE
  /\ result = "none"
  /\ draws = 0
  /\ key_event = NoKey
  /\ enqueued = <<>>
  /\ dequeued = <<>>
  /\ area = LoopArea
  /\ frame = NoFrame

SpecAnyTick == InitAnyTick /\ [][Next]_vars

\* ------------------------------------------------------- rendering alone
\* Frame heights and log buffer lengths that are explored.
MaxHeight == 16
MaxLogs == 8

AllConfigs == [control : 0..2, worker : 0..2, vip : BOOLEAN]
DrawAreas == {Rect(0, 0, w, h) : w \in {8, ConfigWidth + 4}, h \in 0..MaxHeight}
LogsOfLen(n) == [i \in 1..n |-> LogEvent("other", i, "ERROR")]

\* draw is a function of the frame's area and the App's fields: any area, any
\* topology, debug on or off and any log buffer.
InitDraw ==
  /\ pc = "draw"
  /\ running = TRUE
  /\ debug \in BOOLEAN
  /\ logs \in {LogsOfLen(n) : n \in 0..MaxLogs}
  /\ config \in AllConfigs
  /\ queue = <<>>
  /\ rxAlive = TRUE
  /\ taskAlive = TRUE
  /\ taskIters = 0
  /\ filter = "none"
  /\ emitted = [s \in Sites |-> 0]
  /\ emitFailed = FALSE
  /\ rawMode = TRUE
  /\ result = "none"
  /\ draws = 0
  /\ key_event = NoKey
  /\ enqueued = <<>>
  /\ dequeued = <<>>
  /\ area \in DrawAreas
  /\ frame = NoFrame

\* One call of App::draw.
DrawCall ==
  /\ pc = "draw"
  /\ frame' = draw(App, area)
  /\ pc' = "drawn"
  /\ UNCHANGED <<running, debug, logs, config, queue, rxAlive, taskAlive, taskIters,
                 filter, emitted, emitFailed, rawMode, result, draws, key_event,
                 enqueued, dequeued, area>>

\* One call of main.rs's draw on the same buffer and area.
MainDrawCall ==
  /\ pc = "draw"
  /\ frame' = main_draw(logs, area)
  /\ pc' = "main_drawn"
  /\ UNCHANGED <<running, debug, logs, config, queue, rxAlive, taskAlive, taskIters,
                 filter, emitted, emitFailed, rawMode, result, draws, key_event,
                 enqueued, dequeued, area>>

NextDraw == DrawCall \/ MainDrawCall

SpecDraw == InitDraw /\ [][NextDraw]_vars

\* ------------------------------------------------------- the event match alone
\* Any event can be the next one: every variant is public and tx() hands a
\* Sender to any caller. The loop waits in handle_events, the current state
\* drawn, with one event queued.
AllEvents ==
  {Tick, Mouse, Resize, Invalid}
    \cup {Log(LogEvent("other", 2, "ERROR")), Log(LogEvent("init_logger", 1, "INFO"))}
    \cup {Key(k) : k \in {e \in KeyEvents : e.kind = "Press"}}

InitEvents ==
  /\ pc = "handle"
  /\ running = TRUE
  /\ debug \in BOOLEAN
  /\ logs \in SomeLogs
  /\ config \in Configs
  /\ \E e \in AllEvents : queue = <<e>>
  /\ rxAlive = TRUE
  /\ taskAlive = TRUE
  /\ taskIters = 0
  /\ filter \in {"none", "DEBUG"}
  /\ emitted = [s \in Sites |-> 0]
  /\ emitFailed = FALSE
  /\ rawMode = TRUE
  /\ result = "none"
  /\ draws = 1
  /\ key_event = NoKey
  /\ enqueued = queue
  /\ dequeued = <<>>
  /\ area = LoopArea
  /\ frame = draw(App, area)

NextEvents == HandleEvents

SpecEvents == InitEvents /\ [][NextEvents]_vars

\* ------------------------------------------------------- a run on a working terminal
\* terminal.clear() and terminal.draw() return Ok, and the thread that called
\* run keeps running: a loop step that stays possible is taken. Nothing is
\* assumed of the task or of the other call sites. The terminal yields a quit
\* key, a key that does not quit, or an event the task drops; the topology is
\* the one with every panel.
LiveInputs ==
  {TermKey(KeyEvent("q", {}, "Press")), TermKey(KeyEvent("d", {}, "Press")), FocusLost}

InitLive == Init /\ config.vip

LoopNext ==
  \/ RunStart
  \/ Clear(TRUE)
  \/ Draw(TRUE)
  \/ HandleEvents
  \/ LoopExit

NextLive ==
  \/ LoopNext
  \/ TaskTick
  \/ \E ev \in LiveInputs : TaskInput(ev)
  \/ \E level \in FilterLevels : InitLogger(level)
  \/ EmitOther

SpecLive == InitLive /\ [][NextLive]_vars /\ WF_vars(LoopNext)

\* ======================================================= properties
IsLogEvent(e) == e.type = "Log"
IsKeyEvent(e) == e.type = "Key"
\* The records carried by the Log events of a sequence of events, in order.
LogsOf(evs) ==
  LET sel == SelectSeq(evs, IsLogEvent) IN [i \in 1..Len(sel) |-> sel[i].log]
IsPrefix(s, t) == Len(s) <= Len(t) /\ SubSeq(t, 1, Len(s)) = s
\* A step of the run loop in which handle_events returns.
HandleStep == pc = "handle" /\ pc' = "loop" /\ Len(dequeued') = Len(dequeued) + 1
Handled == dequeued'[Len(dequeued')]
\* The keys section 4.3 of the specification maps to quitting.
QuitKey(k) ==
  \/ k.code \in {"Esc", "q"}
  \/ k.code \in {"c", "C"} /\ "CONTROL" \in k.modifiers

\* C1: the log buffer is at every point exactly the Log records dequeued so
\* far, in dequeue order; every step leaves it alone or appends one record at
\* its tail, and only a step handling a Log event changes it.
C1_LogBufferAppendOnly ==
  /\ [](logs = LogsOf(dequeued))
  /\ [][/\ IsPrefix(logs, logs')
        /\ Len(logs') <= Len(logs) + 1
        /\ (logs' # logs =>
              HandleStep /\ Handled.type = "Log" /\ logs' = Append(logs, Handled.log))]_vars

C1_Witness ==
  /\ Len(logs) >= 2
  /\ logs[1].site # logs[2].site
  /\ \E i \in 1..Len(dequeued) : dequeued[i].type \in {"Tick", "Key"}

\* C2: next returns the events in the order the sends queued them, none lost
\* and none duplicated: what was sent is what was received followed by what is
\* still queued. Hence two records of one call site enter the log buffer in
\* the order that site raised them.
C2_FirstInFirstOut ==
  /\ enqueued = dequeued \o queue
  /\ \A i, j \in 1..Len(logs) :
       (i < j /\ logs[i].site = logs[j].site) => logs[i].n < logs[j].n
  /\ \A i \in 1..Len(dequeued) : dequeued[i].type # "Invalid"

C2_Witness ==
  /\ \E i, j \in 1..Len(logs) : i < j /\ logs[i].site = logs[j].site
  /\ \E i \in 1..Len(dequeued) : dequeued[i].type = "Key"
  /\ queue # <<>>

\* C3 as stated: the loop ends in no other way than by a handled quit key.
C3_LoopEndsOnlyByKey ==
  (pc = "done" /\ result # "clear_err") =>
     (~running /\ key_event # NoKey /\ QuitKey(key_event))

\* C3 amended: running turns false only in a step that handles a quit key
\* (never for Tick, Mouse, Resize, Log or Invalid), and the loop ends either
\* after such a step or by a failed terminal.draw, which returns the error
\* with running still true.
C3_RunningClearedOnlyByKey ==
  /\ [][(running /\ ~running') =>
          (HandleStep /\ Handled.type = "Key" /\ QuitKey(Handled.key))]_vars
  /\ []((pc = "done" /\ result # "clear_err") =>
          \/ result = "ok" /\ ~running /\ QuitKey(key_event)
          \/ result = "draw_err" /\ running)

C3_Witness ==
  /\ pc = "done"
  /\ result = "ok"
  /\ ~running
  /\ key_event.code = "c"
  /\ \E i \in 1..Len(dequeued) : dequeued[i].type = "Tick"
  /\ \E i \in 1..Len(dequeued) : dequeued[i].type = "Log"

\* C4: once a quit key has been handled, no draw happens and no event is
\* dequeued any more; the only step left to the loop is its exit.
C4_NoDrawAfterQuit ==
  /\ [][((pc \in {"loop", "done"} /\ ~running) =>
           (draws' = draws /\ dequeued' = dequeued /\ pc' \in {pc, "done"}))]_vars
  /\ []((pc = "loop" /\ ~running) => ENABLED LoopExit)

C4_Witness ==
  /\ pc = "done"
  /\ result = "ok"
  /\ draws >= 2
  /\ queue # <<>>
  /\ dequeued[Len(dequeued)].type = "Key"

\* A step in which a call of handle_key_events returns (key_event' is its argument).
KeyCallStep == pc = "call" /\ pc' = "ret"

\* C5: for every key event whose code is Esc or q, with any modifiers and in
\* any state of debug and logs, handle_key_events sets running to false and
\* leaves debug and logs as they were.
C5_EscOrQStops ==
  [][(KeyCallStep /\ key_event'.code \in {"Esc", "q"}) =>
       (~running' /\ debug' = debug /\ logs' = logs)]_vars

C5_Witness ==
  /\ pc = "ret"
  /\ key_event.code = "q"
  /\ key_event.modifiers = AllModifiers
  /\ ~running
  /\ debug
  /\ logs # <<>>

\* C6: for every key event whose code is c or C, handle_key_events sets
\* running to false if the control modifier is held (alone or with other
\* modifiers) and leaves running unchanged if it is not.
C6_CtrlCStops ==
  [][(KeyCallStep /\ key_event'.code \in {"c", "C"}) =>
       IF "CONTROL" \in key_event'.modifiers THEN ~running'
                                             ELSE running' = running]_vars

\* C7: a handled d or D key press flips debug and leaves running and the log
\* buffer alone, so debug is true exactly after an odd number of them; and
\* only key events of kind Press are ever placed on the queue.
NumToggles == Len(SelectSeq(dequeued, LAMBDA e : e.type = "Key" /\ e.key.code \in {"d", "D"}))
C7_DebugTogglesOncePerPress ==
  /\ [](debug = (NumToggles % 2 = 1))
  /\ [](\A i \in 1..Len(enqueued) :
          enqueued[i].type = "Key" => enqueued[i].key.kind = "Press")
  /\ [][(HandleStep /\ Handled.type = "Key" /\ Handled.key.code \in {"d", "D"}) =>
          (debug' = ~debug /\ running' = running /\ logs' = logs)]_vars

C7_Witness ==
  /\ NumToggles = 2
  /\ ~debug
  /\ running
  /\ taskIters = 2

\* C8: a key event whose code is none of Esc, q, c, C, d, D changes nothing:
\* running, debug, the log buffer and the topology stay as they were and the
\* call returns without an error.
C8_OtherKeysIgnored ==
  [][(pc = "call" /\ key_event' # key_event
        /\ key_event'.code \notin {"Esc", "q", "c", "C", "d", "D"}) =>
       /\ running' = running
       /\ debug' = debug
       /\ logs' = logs
       /\ config' = config
       /\ emitFailed' = emitFailed
       /\ pc' = "ret"]_vars

C8_Witness ==
  /\ pc = "ret"
  /\ key_event.code = "Q"
  /\ key_event.modifiers = {"SHIFT"}
  /\ running
  /\ debug

\* C9: whenever run has returned, with Ok or with an error, the terminal has
\* been restored.
C9_RestoredOnEveryReturn == pc = "done" => ~rawMode

\* C10: on_event never fails towards its emitter and never waits: whatever is
\* queued, a record raised while the Receiver lives is queued at the tail at
\* once, and one raised after the Receiver was dropped is discarded.
EmitStep(site) == emitted'[site] = emitted[site] + 1
C10_EmitNeverFails ==
  /\ [](~emitFailed)
  /\ [][\A site \in Sites : EmitStep(site) =>
          /\ ~emitFailed'
          /\ rxAlive =>
               /\ queue' # <<>>
               /\ queue'[Len(queue')].type = "Log"
               /\ queue'[Len(queue')].log.site = site
               /\ queue'[Len(queue')].log.n = emitted'[site]
               /\ enqueued' = Append(enqueued, queue'[Len(queue')])
          /\ ~rxAlive => (queue' = queue /\ enqueued' = enqueued)]_vars
  /\ []((enabled(filter, "ERROR") /\ emitted["other"] < MaxEmit) => ENABLED EmitOther)

C10_Witness ==
  /\ ~rxAlive
  /\ emitted["other"] = 1
  /\ \A i \in 1..Len(enqueued) : enqueued[i].log.site # "other"
  /\ ~emitFailed

\* C11: next yields Invalid instead of blocking once every producer has
\* terminated and the queue is drained (here: the task died on a zero tick
\* rate and no bridge was installed); while events are queued it yields them.
C11_InvalidWhenProducersGone ==
  (pc = "handle" /\ (queue # <<>> \/ (~taskAlive /\ filter = "none"))) =>
     ENABLED HandleEvents

\* The panel of a kind in a frame, and the rows inside a panel's border.
PanelOf(f, kind) == f[CHOOSE i \in 1..Len(f) : f[i].kind = kind]
VisibleHeight(p) ==
  LET used == Cardinality(p.borders \cap {"TOP", "BOTTOM"})
  IN  IF p.area.height > used THEN p.area.height - used ELSE 0
Last(seq) == seq[Len(seq)]

\* C12: when the Logs panel is drawn, its scroll offset is
\* max(0, n - visible_height) and it renders min(n, visible_height) lines,
\* ending with the newest record when there is one and a row to show it.
C12_ScrollOffsetTracksTail ==
  (pc = "drawn" /\ debug) =>
    LET p == PanelOf(frame, "Logs")
        n == Len(logs)
        v == VisibleHeight(p)
    IN  /\ p.offset = (IF n > v THEN n - v ELSE 0)
        /\ Len(p.lines) = (IF n < v THEN n ELSE v)
        /\ (n > 0 /\ v > 0) => Last(p.lines) = Last(logs)

C12_Witness ==
  /\ pc = "drawn"
  /\ debug
  /\ VisibleHeight(PanelOf(frame, "Logs")) = 3
  /\ Len(logs) = 5
  /\ PanelOf(frame, "Logs").offset = 2

\* The directions in which a box-drawing glyph has an arm.
Arms(g) ==
  CASE g = "vertical"        -> {"up", "down"}
    [] g = "horizontal"      -> {"left", "right"}
    [] g = "top_left"        -> {"down", "right"}
    [] g = "top_right"       -> {"down", "left"}
    [] g = "bottom_left"     -> {"up", "right"}
    [] g = "bottom_right"    -> {"up", "left"}
    [] g = "vertical_right"  -> {"up", "down", "right"}
    [] g = "vertical_left"   -> {"up", "down", "left"}
    [] g = "horizontal_down" -> {"left", "right", "down"}
    [] g = "horizontal_up"   -> {"left", "right", "up"}
    [] OTHER                 -> {}
Opposite(d) ==
  CASE d = "up" -> "down" [] d = "down" -> "up" [] d = "left" -> "right" [] d = "right" -> "left"
\* The border glyph a frame shows on a cell (titles left aside).
GlyphAt(f, x, y) ==
  IF \E i \in 1..Len(f) : cell_glyph(f[i], x, y) # "none"
  THEN cell_glyph(f[CHOOSE i \in 1..Len(f) : cell_glyph(f[i], x, y) # "none"], x, y)
  ELSE "none"
Toward(x, y, d) ==
  CASE d = "up" -> <<x, y - 1>> [] d = "down" -> <<x, y + 1>>
    [] d = "left" -> <<x - 1, y>> [] d = "right" -> <<x + 1, y>>
\* Every glyph has an arm exactly toward the neighbours whose glyph has an arm
\* toward it.
JunctionsConsistent(f, a) ==
  \A x \in 0..(a.width - 1), y \in 0..(a.height - 1) :
    LET g == GlyphAt(f, x, y)
    IN  g # "none" =>
          \A d \in {"up", "down", "left", "right"} :
            LET n == Toward(x, y, d)
            IN  (d \in Arms(g)) <=>
                  /\ n[1] \in 0..(a.width - 1)
                  /\ n[2] \in 0..(a.height - 1)
                  /\ Opposite(d) \in Arms(GlyphAt(f, n[1], n[2]))
\* Two panels side by side, or one above the other, draw their shared edge
\* once: exactly one of them has the border that faces the other.
Overlap(a1, n1, a2, n2) == a1 < a2 + n2 /\ a2 < a1 + n1
SharedEdgesOnce(f) ==
  \A i, j \in 1..Len(f) :
    LET p == f[i]
        q == f[j]
        nonempty == p.area.width > 0 /\ p.area.height > 0
                      /\ q.area.width > 0 /\ q.area.height > 0
    IN  /\ (nonempty /\ p.area.x + p.area.width = q.area.x
              /\ Overlap(p.area.y, p.area.height, q.area.y, q.area.height)) =>
             (("RIGHT" \in p.borders) # ("LEFT" \in q.borders))
        /\ (nonempty /\ p.area.y + p.area.height = q.area.y
              /\ Overlap(p.area.x, p.area.width, q.area.x, q.area.width)) =>
             (("BOTTOM" \in p.borders) # ("TOP" \in q.borders))
\* A frame roomy enough for every panel to have its border and a content row.
Roomy(a) == a.width >= ConfigWidth + 3 /\ a.height >= 12

\* C13: in each of the 8 combinations of (vip, workers, debug) the corner
\* glyphs of the drawn panels have an arm exactly toward each direction in
\* which a border continues, and every shared edge is drawn by exactly one
\* of the two panels.
C13_BordersMerge ==
  (pc = "drawn" /\ Roomy(area)) =>
     (JunctionsConsistent(frame, area) /\ SharedEdgesOnce(frame))

\* C14: a frame holds exactly the panels Configuration and ControlNodes, Vip
\* iff a virtual IP is configured, WorkerNodes iff the worker list is not
\* empty and Logs iff debug is on, each of them once.
ExpectedPanels ==
  {"Configuration", "ControlNodes"}
    \cup (IF config.vip THEN {"Vip"} ELSE {})
    \cup (IF config.worker > 0 THEN {"WorkerNodes"} ELSE {})
    \cup (IF debug THEN {"Logs"} ELSE {})
C14_PanelsDrawnOnce ==
  pc = "drawn" =>
    /\ {frame[i].kind : i \in 1..Len(frame)} = ExpectedPanels
    /\ Len(frame) = Cardinality(ExpectedPanels)

C14_Witness ==
  /\ pc = "drawn"
  /\ config = [control |-> 2, worker |-> 0, vip |-> FALSE]
  /\ debug
  /\ logs = <<>>
  /\ Len(frame) = 3
  /\ PanelOf(frame, "ControlNodes").lines = <<"control-1", "control-2">>

\* C19: main.rs's draw shows the most recent visible_height records, oldest
\* at the top, visible_height being the rows inside the bordered block; so
\* the newest record is shown whenever there is a record and a row.
C19_MainDrawShowsNewest ==
  pc = "main_drawn" =>
    LET p == frame[1]
        n == Len(logs)
        v == VisibleHeight(p)
    IN  /\ p.lines = SubSeq(logs, n - Least(n, v) + 1, n)
        /\ (n > 0 /\ v > 0) => Last(p.lines) = Last(logs)

\* C15: run alternates draw and handle_events, beginning with a draw: while
\* the loop waits for an event it has drawn once more than it has dequeued,
\* and what it has drawn is the current state; everywhere else the two counts
\* are equal, so no event is consumed before a draw or between two events
\* without one.
C15_DrawThenHandle ==
  /\ pc = "handle" => (draws = Len(dequeued) + 1 /\ frame = draw(App, area))
  /\ pc # "handle" => draws = Len(dequeued)
  /\ pc \in {"new", "clear"} => (draws = 0 /\ frame = NoFrame)

C15_Witness ==
  /\ pc = "handle"
  /\ draws = 3
  /\ Len(dequeued) = 2
  /\ debug
  /\ \E i \in 1..Len(frame) : frame[i].kind = "Logs"

\* C16: handling a Tick, Mouse, Resize or Invalid event leaves running,
\* debug, the log buffer and the topology unchanged.
C16_IdleEventsChangeNothing ==
  [][(HandleStep /\ Handled.type \in {"Tick", "Mouse", "Resize", "Invalid"}) =>
       (running' = running /\ debug' = debug /\ logs' = logs /\ config' = config)]_vars

C16_Witness ==
  /\ pc = "loop"
  /\ dequeued = <<Invalid>>
  /\ running
  /\ debug
  /\ logs # <<>>

\* C17 as stated: handling a key event puts nothing on the queue (it only
\* takes the key off), and no record of the key interpreter ever reaches the
\* log buffer.
C17_KeyHandlingEnqueuesNothing ==
  /\ [][(HandleStep /\ Handled.type = "Key") => queue' = Tail(queue)]_vars
  /\ [](\A i \in 1..Len(logs) : logs[i].site # "handle_key_events")

\* C17 amended: handling a key event leaves the log buffer and the topology
\* alone, but raises one DEBUG record: when the installed filter lets DEBUG
\* through, that record is put on the queue behind what is queued (and
\* reaches the log buffer later); otherwise nothing is queued.
C17_KeyHandlingQueuesItsRecord ==
  [][(HandleStep /\ Handled.type = "Key") =>
       /\ logs' = logs
       /\ config' = config
       /\ filter = "DEBUG" =>
            queue' = Append(Tail(queue),
                            Log(LogEvent("handle_key_events",
                                         emitted["handle_key_events"] + 1, "DEBUG")))
       /\ filter # "DEBUG" => queue' = Tail(queue)]_vars

C17_Witness ==
  /\ \E i \in 1..Len(logs) : logs[i].site = "handle_key_events"
  /\ \E i \in 1..Len(dequeued) : dequeued[i].type = "Key"
  /\ filter = "DEBUG"

\* C18: a draw changes no field of the App and queues nothing, and a draw of
\* the state and size the previous draw saw (only an event without effect was
\* handled since) renders the same frame again.
DrawStep == pc = "loop" /\ pc' = "handle"
LogQueued == \E i \in 1..Len(queue) : queue[i].type = "Log"
C20_QueuedLogsReachBuffer ==
  /\ LogQueued ~> (~LogQueued \/ pc = "done")
  /\ [](enqueued = dequeued \o queue /\ logs = LogsOf(dequeued))
  /\ []((pc = "done" /\ LogQueued) =>
          (Last(dequeued).type = "Key" /\ QuitKey(Last(dequeued).key)))

C20_Witness ==
  /\ pc = "handle"
  /\ running
  /\ Len(dequeued) = 2
  /\ dequeued[1].type = "Key"
  /\ dequeued[2].type = "Log"
  /\ logs = <<dequeued[2].log>>
  /\ ~LogQueued

\* C21: the EventHandler, and with it the Receiver, lives exactly until run
\* returns; until then the task has not panicked, and every pass of the
\* task's loop taken while the handler lives, whatever is queued, leaves the
\* task alive and puts the event it forwards at the tail of the queue.
TaskStep == taskIters' = taskIters + 1
C21_TaskSendCannotFail ==
  /\ [](rxAlive <=> pc # "done")
  /\ [](pc # "done" => taskAlive)
  /\ [][(TaskStep /\ rxAlive) =>
          /\ taskAlive'
          /\ queue' \in {queue} \cup {Append(queue, e) : e \in {Tick, Mouse, Resize}}
                                \cup {Append(queue, Key(k)) : k \in LoopKeys}
          /\ enqueued' = enqueued \o SubSeq(queue', Len(queue) + 1, Len(queue'))]_vars

C21_Witness ==
  /\ pc = "handle"
  /\ taskAlive
  /\ taskIters = MaxTask
  /\ Len(queue) >= 3
  /\ queue[Len(queue)].type = "Tick"
  /\ queue[1].type = "Log"

====
